---------------------------- MODULE Spec2Model ----------------------------
(***************************************************************************)
(* A model of s3_regions.py: the name-variation generator, the endpoint    *)
(* synthesizer, the shared discovery state (CHECKED_SET, FOUND_BUCKETS,    *)
(* STOP_ALL, LOCK), the External-Tool channel (_run_cli / _cli_probe, run  *)
(* by the main thread), the Direct-Protocol channel (_run_web and the      *)
(* pool workers running _web_check) and the signal handler _cleanup.       *)
(*                                                                         *)
(* Strings are TLA+ strings; bucket names, regions and URLs are built and  *)
(* compared character by character as the Python code does.                *)
(***************************************************************************)
EXTENDS Integers, Sequences, FiniteSets, Bags, TLC

(***************************************************************************)
(* Bounds of the model.                                                    *)
(***************************************************************************)
\* how many entries of REGIONS (src line 229) a run sweeps
MaxRegions == 1
\* how many candidate names of VARIATIONS a run sweeps
MaxCandidates == 2
\* largest worker-pool width (-t) tried
MaxThreads == 2
\* largest run tried, as measured by Work below
MaxWork == 26

(***************************************************************************)
(* String helpers (Python's str methods used by the source).               *)
(***************************************************************************)
\* s[i] as a one-character string
CharAt(s, i) == SubSeq(s, i, i)

\* Python `sub in s`
Contains(sub, s) ==
    \E i \in 1..(Len(s) - Len(sub) + 1) : SubSeq(s, i, i + Len(sub) - 1) = sub

\* Python s.replace(old, new) for a one-character old
RECURSIVE ReplaceFrom(_, _, _, _)
ReplaceFrom(s, i, old, new) ==
    IF i > Len(s) THEN ""
    ELSE (IF CharAt(s, i) = old THEN new ELSE CharAt(s, i))
             \o ReplaceFrom(s, i + 1, old, new)

Replace(s, old, new) == ReplaceFrom(s, 1, old, new)

\* a faulty de-duplication: the list is returned as it is
DedupKeepsAll(v) == v

\* Python list(dict.fromkeys(v)): first occurrences, in order
Dedup(v) ==
    LET first == { i \in 1..Len(v) : \A j \in 1..(i - 1) : v[j] # v[i] }
    IN  [ k \in 1..Cardinality(first) |->
            v[CHOOSE i \in first : Cardinality({ j \in first : j <= i }) = k] ]

\* the elements of a sequence
Range(s) == { s[i] : i \in 1..Len(s) }

\* the first n elements of a sequence
Take(s, n) == SubSeq(s, 1, IF n < Len(s) THEN n ELSE Len(s))

(***************************************************************************)
(* Regions and name variations.                                            *)
(***************************************************************************)
REGIONS_ALL ==
    << "us-east-1", "us-east-2", "us-west-1", "us-west-2",
       "af-south-1", "ap-east-1", "ap-southeast-1", "ap-southeast-2",
       "ap-southeast-3", "ap-northeast-1", "ap-northeast-2", "ap-northeast-3",
       "ap-south-1", "ca-central-1",
       "cn-north-1", "cn-northwest-1",
       "eu-central-1", "eu-west-1", "eu-west-2", "eu-west-3",
       "eu-north-1", "eu-south-1",
       "me-south-1", "me-central-1",
       "sa-east-1",
       "us-gov-east-1", "us-gov-west-1",
       "us-iso-east-1", "us-iso-west-1", "us-isob-east-1" >>

\* None (the CLI channel's first attempt) and '' (the web channel's): both falsy
NoRegion == ""

VariationList(b) ==
    << b,
       "www." \o b,
       b \o "-www",
       b \o ".com",
       "www." \o b \o ".com",
       b \o "-com",
       "www-" \o b \o "-com",
       b \o "-dev",
       b \o "-staging",
       b \o "-test",
       b \o "-qa",
       b \o "-prod",
       "dev-" \o b,
       "staging-" \o b,
       "test-" \o b,
       "qa-" \o b,
       "prod-" \o b,
       b \o "-logs",
       b \o "-backups",
       b \o "-archive",
       b \o "-resources",
       b \o "-files",
       b \o "-images",
       b \o "-static",
       b \o "-uploads",
       b \o "-cdn",
       b \o "-content",
       b \o "-assets",
       b \o "-config",
       b \o "-data",
       b \o "-api",
       "cdn-" \o b,
       "files-" \o b,
       "uploads-" \o b,
       "static-" \o b,
       "assets-" \o b,
       "logs-" \o b,
       "backups-" \o b,
       "archive-" \o b,
       "resources-" \o b,
       "s1-" \o b,
       "s2-" \o b,
       "s3-" \o b,
       b \o "-s1",
       b \o "-s2",
       b \o "-s3",
       "s3-" \o b,
       Replace(b, "_", "-"),
       Replace(b, "-", "_"),
       b \o "-app",
       "app-" \o b,
       b \o "-service",
       "service-" \o b,
       b \o "-storage",
       b \o "-dist",
       b \o "-v1",
       b \o "-v2",
       b \o "-old",
       b \o "-new",
       "v1-" \o b,
       "v2-" \o b,
       b \o ".com-dev",
       b \o ".com-test",
       b \o ".com-prod",
       "dev-" \o b \o ".com",
       "test-" \o b \o ".com",
       "prod-" \o b \o ".com",
       Replace(b, ".", "-"),
       "www-" \o Replace(b, ".", "-"),
       Replace(b, ".", "-") \o "-dev",
       Replace(b, ".", "-") \o "-prod",
       Replace(b, ".", "-") \o "-logs",
       Replace(b, ".", "-") \o "-assets" >>

_variations(b) == Dedup(VariationList(b))

RECURSIVE ExtendAll(_, _)
ExtendAll(buckets, i) ==
    IF i > Len(buckets) THEN <<>>
    ELSE _variations(buckets[i]) \o ExtendAll(buckets, i + 1)

_get_all_variations(base_buckets, name_variations) ==
    IF name_variations THEN Dedup(ExtendAll(base_buckets, 1))
    ELSE base_buckets

(***************************************************************************)
(* Endpoint synthesizer.                                                   *)
(***************************************************************************)
EndpointsOfProto(proto, bucket, region) ==
    << proto \o "://" \o bucket >> \o
    ( IF region = NoRegion
      THEN << proto \o "://" \o bucket \o ".s3.amazonaws.com",
              proto \o "://s3.amazonaws.com/" \o bucket >>
      ELSE << proto \o "://" \o bucket \o ".s3." \o region \o ".amazonaws.com",
              proto \o "://s3." \o region \o ".amazonaws.com/" \o bucket,
              proto \o "://" \o bucket \o ".s3-" \o region \o ".amazonaws.com",
              proto \o "://s3-" \o region \o ".amazonaws.com/" \o bucket,
              proto \o "://" \o bucket \o ".s3-website." \o region \o ".amazonaws.com",
              proto \o "://s3-website." \o region \o ".amazonaws.com/" \o bucket,
              proto \o "://s3-website-" \o region \o ".amazonaws.com/" \o bucket,
              proto \o "://" \o bucket \o ".s3-website-" \o region \o ".amazonaws.com",
              proto \o "://" \o bucket \o ".s3.dualstack." \o region \o ".amazonaws.com",
              proto \o "://s3.dualstack." \o region \o ".amazonaws.com/" \o bucket >> )

_endpoints(bucket, region) ==
    EndpointsOfProto("http", bucket, region) \o EndpointsOfProto("https", bucket, region)


(***************************************************************************)
(* Response classification and the outcome tests of _web_check.            *)
(***************************************************************************)
\* what _fetch can return: a status (0 = the request failed) and which marker
\* substrings the body holds
Responses ==
    [ status : {0, 200, 403, 404},
      AccessDenied : BOOLEAN, ListBucketResult : BOOLEAN,
      NoSuchBucket : BOOLEAN, InvalidBucketName : BOOLEAN ]

\* a faulty classification: a 403 with AccessDenied counts even when the body
\* names InvalidBucketName
ClassifyIgnoringInvalidName(resp) ==
    IF resp.status = 403 /\ resp.AccessDenied /\ ~resp.NoSuchBucket
    THEN "Found (Access Denied)"
    ELSE IF resp.status = 200 /\ resp.ListBucketResult
               /\ ~(resp.NoSuchBucket \/ resp.InvalidBucketName)
    THEN "Accessible"
    ELSE ""

\* the label _web_check gives a response; "" when bucket_accessible stays False
Classify(resp) ==
    IF resp.status = 403 /\ resp.AccessDenied
          /\ ~(resp.NoSuchBucket \/ resp.InvalidBucketName)
    THEN "Found (Access Denied)"
    ELSE IF resp.status = 200 /\ resp.ListBucketResult
               /\ ~(resp.NoSuchBucket \/ resp.InvalidBucketName)
    THEN "Accessible"
    ELSE ""

\* the labels the responses of _fetch can be given
Classifications == { Classify(resp) : resp \in Responses }

\* a faulty GET test: the GET is tried whether or not the PUT succeeded
GetAlways(put_ok) == TRUE

\* `if put_ok:` before the GET
GetEligible(put_ok) == put_ok

\* `if test_delete and put_ok:` before the DELETE
DeleteEligible(delete_enabled, put_ok) == delete_enabled /\ put_ok

\* a faulty report test: every probe counts as a finding, failed or not
IsFindingAlways(l) == TRUE

\* a faulty report test: only an accessible listing counts as a finding
IsFindingListingOnly(l) == l.bucket_accessible

\* `if bucket_accessible or put_ok or get_ok or del_ok:`
IsFinding(l) == l.bucket_accessible \/ l.put_ok \/ l.get_ok \/ l.del_ok

\* the locals of one probe (one _web_check call, one region attempt of
\* _cli_probe); nput, nget, ndel count the PUT/GET/DELETE calls it has made,
\* called is whether it has called _mark_found, marked_as the bucket it passed,
\* printed whether it has printed a "found" line
NoLocals ==
    [ bucket_accessible |-> FALSE, put_ok |-> FALSE, get_ok |-> FALSE,
      del_ok |-> FALSE, nput |-> 0, nget |-> 0, ndel |-> 0,
      called |-> FALSE, marked_as |-> "", printed |-> FALSE ]

\* where a probe goes after its listing check / PUT / GET
AfterListing(put_enabled) == IF put_enabled THEN "put" ELSE "report"

AfterPut(delete_enabled, put_ok) ==
    IF GetEligible(put_ok) THEN "get"
    ELSE IF DeleteEligible(delete_enabled, put_ok) THEN "del"
    ELSE "report"

AfterGet(delete_enabled, put_ok) ==
    IF DeleteEligible(delete_enabled, put_ok) THEN "del" ELSE "report"

(***************************************************************************)
(* The ledger operations.                                                  *)
(***************************************************************************)
\* a faulty record-finding: the candidate's region set is overwritten
MarkFoundMapOverwrite(found, bucket, region) ==
    IF bucket = "" THEN found
    ELSE (bucket :> (IF region = "" THEN {} ELSE {region})) @@ found

\* FOUND_BUCKETS.setdefault(bucket, set()); if region: FOUND_BUCKETS[bucket].add(region)
MarkFoundMap(found, bucket, region) ==
    IF bucket = "" THEN found
    ELSE LET f == IF bucket \in DOMAIN found THEN found
                  ELSE found @@ (bucket :> {})
         IN  IF region = "" THEN f
             ELSE [f EXCEPT ![bucket] = @ \cup {region}]

\* a faulty base-found signal: recording the base again clears it
MarkFoundSignalToggles(base_found, bucket, base) ==
    IF bucket = base THEN ~base_found ELSE base_found

\* `if bucket == BASE and not BASE_FOUND.is_set(): BASE_FOUND.set()`
MarkFoundSignal(base_found, bucket, base) == base_found \/ bucket = base

\* the label _cli_probe passes to _mark_found as the region
Label(region) == IF region = NoRegion THEN "No Region" ELSE region

\* the skip test of _cli_probe
AlreadyFound(found, bucket, region) ==
    bucket \in DOMAIN found /\ (region = NoRegion \/ region \in found[bucket])

\* the bucket name _web_check resolves from a URL
RECURSIVE FirstContained(_, _, _)
FirstContained(variations, i, url) ==
    IF i > Len(variations) THEN ""
    ELSE IF Contains(variations[i], url) THEN variations[i]
    ELSE FirstContained(variations, i + 1, url)

ResolveBucket(variations, base, url) ==
    LET bucket_name == FirstContained(variations, 1, url)
    IN  IF bucket_name = "" THEN base ELSE bucket_name

\* faulty tests of _web_check: one forgets the checked set, one the flag
WebCheckSkipsOnStopOnly(checked, stop, url) == stop

WebCheckSkipsOnCheckedOnly(checked, stop, url) == url \in checked

\* the test of _web_check under LOCK: TRUE when the call returns at once
WebCheckSkips(checked, stop, url) == url \in checked \/ stop

\* the list of URLs _run_web submits, each with the (bucket, region) it was
\* synthesized from
RECURSIVE TagAll(_, _, _, _)
TagAll(eps, i, b, r) ==
    IF i > Len(eps) THEN <<>>
    ELSE << [url |-> eps[i], bucket |-> b, region |-> r] >> \o TagAll(eps, i + 1, b, r)

RECURSIVE UrlsOfRegions(_, _, _)
UrlsOfRegions(b, regions, j) ==
    IF j > Len(regions) THEN <<>>
    ELSE TagAll(_endpoints(b, regions[j]), 1, b, regions[j])
            \o UrlsOfRegions(b, regions, j + 1)

RECURSIVE AllUrlsFrom(_, _, _)
AllUrlsFrom(variations, regions, i) ==
    IF i > Len(variations) THEN <<>>
    ELSE TagAll(_endpoints(variations[i], NoRegion), 1, variations[i], NoRegion)
            \o UrlsOfRegions(variations[i], regions, 1)
            \o AllUrlsFrom(variations, regions, i + 1)

\* a faulty URL list: the regional endpoints are left out
AllUrlsWithoutRegions(variations, regions) == AllUrlsFrom(variations, <<>>, 1)

AllUrls(variations, regions) == AllUrlsFrom(variations, regions, 1)

(***************************************************************************)
(* The state of a run.                                                     *)
(***************************************************************************)
VARIABLES
    \* the command line and the environment
    BASE_BUCKETS, NAME_VARIATIONS, RUN_WEB, RUN_CLI, THREADS, VARIATIONS,
    aws_installed,
    \* the regions the run sweeps: a prefix of the source's list
    REGIONS,
    \* what _get_test_params sets
    test_put, test_delete,
    \* the shared state
    STOP_ALL, CHECKED_SET, FOUND_BUCKETS, BASE_FOUND, LOCK, tdir_exists,
    \* the lock inside the pool that ex.submit and ex.shutdown both take:
    \* "free", or "main" while the main thread is inside ex.submit
    ex_shutdown_lock,
    \* the main thread: where it is, whether the signal its handler got is one
    \* of (SIGINT, SIGTERM), the exit
    mpc, sig_int_or_term, exited, exit_code,
    \* _run_cli / _cli_probe: index of the bucket in VARIATIONS, index of the
    \* region in [None] + REGIONS (0 = None), the locals of the attempt
    bi, ri, cl,
    \* _run_web: the submitted URLs, the next queued one, each pool worker's
    \* place, task and locals, the futures completed, the loop's counter
    all_urls, qhead, wpc, wtask, wl, completed, done,
    \* history: a probe has passed its stop test; the flag was set before any
    \* did; a request was issued; how often each URL passed the test of
    \* _web_check and was fetched;
    \* the (bucket, region) arguments of the _mark_found calls made
    probe_started, stopped_early, any_request, passed, fetched, recorded,
    \* history: the attempts _cli_probe has begun, in order: the bucket, its
    \* index in VARIATIONS, the index of the region, and whether the
    \* already-found test skipped the attempt
    attempts,
    \* the lines the final summary has printed
    summary,
    \* a call of one of the pure functions (_variations, _get_all_variations,
    \* _endpoints, the classification of _web_check) made on its own: the
    \* function, its argument, how often it was called or iterated, what it
    \* returned, and for _endpoints what is left in the generator it returned
    call

cfgVars == << BASE_BUCKETS, NAME_VARIATIONS, RUN_WEB, RUN_CLI, THREADS,
              VARIATIONS, aws_installed, REGIONS >>
paramVars == << test_put, test_delete >>
ledgerVars == << CHECKED_SET, FOUND_BUCKETS, BASE_FOUND >>
cliVars == << bi, ri, cl >>
poolVars == << wpc, wtask, wl, completed >>
webVars == << all_urls, qhead, wpc, wtask, wl, completed, done >>
histVars == << probe_started, stopped_early, any_request, passed, fetched,
               recorded >>
fnVars == << call >>
vars == << BASE_BUCKETS, NAME_VARIATIONS, RUN_WEB, RUN_CLI, THREADS, VARIATIONS,
           aws_installed, REGIONS, test_put, test_delete, STOP_ALL, CHECKED_SET,
           FOUND_BUCKETS, BASE_FOUND, LOCK, tdir_exists, mpc, sig_int_or_term, exited,
           exit_code, bi, ri, cl, all_urls, qhead, wpc, wtask, wl, completed,
           done, probe_started, stopped_early, any_request, passed, fetched,
           recorded, attempts, summary, ex_shutdown_lock, call >>

\* BASE_BUCKETS[0]
BASE == BASE_BUCKETS[1]

\* the pool's worker threads, and the name each holds LOCK under
Workers == 1..MaxThreads
WName(w) == "w" \o ToString(w)

SIGINT == 2
SIGTERM == 15

\* a faulty sweep: every pass of the loop probes the first candidate
CliBucketAlwaysFirst == VARIATIONS[1]

\* the region and the bucket of the current attempt of _cli_probe
CliRegion == IF ri = 0 THEN NoRegion ELSE REGIONS[ri]
CliBucket == VARIATIONS[bi]

(***************************************************************************)
(* The command lines tried: -b NAME or -l FILE, optionally -w or -c        *)
(* (mutually exclusive; one of them is required with -l), -n, -t N.        *)
(***************************************************************************)
SingleBuckets == { "ab" }
ListFiles == { << "ab" >>, << "ab", "ab" >>, << "ab", "ab-dev" >> }

Invocations ==
    { a \in [ bucket : SingleBuckets \cup {""},
              list : ListFiles \cup {<<>>},
              web_only : BOOLEAN, cli_only : BOOLEAN,
              name_variations : BOOLEAN, threads : 1..MaxThreads ] :
        /\ (a.bucket = "") # (a.list = <<>>)
        /\ ~(a.web_only /\ a.cli_only)
        /\ (a.list # <<>> => (a.web_only \/ a.cli_only))
        /\ (a.cli_only => a.threads = 1) }

InitOf(a, nreg, tool) ==
    /\ BASE_BUCKETS = (IF a.bucket # "" THEN << a.bucket >> ELSE a.list)
    /\ NAME_VARIATIONS = a.name_variations
    /\ RUN_WEB = ~a.cli_only
    /\ RUN_CLI = ~a.web_only
    /\ THREADS = a.threads
    /\ VARIATIONS = Take(_get_all_variations(
                            IF a.bucket # "" THEN << a.bucket >> ELSE a.list,
                            a.name_variations), MaxCandidates)
    /\ aws_installed = tool
    /\ REGIONS = Take(REGIONS_ALL, nreg)
    /\ test_put = TRUE
    /\ test_delete = TRUE
    /\ STOP_ALL = FALSE
    /\ CHECKED_SET = {}
    /\ FOUND_BUCKETS = << >>
    /\ BASE_FOUND = FALSE
    /\ LOCK = "free"
    /\ tdir_exists = TRUE
    /\ ex_shutdown_lock = "free"
    /\ mpc = "start"
    /\ sig_int_or_term = FALSE
    /\ exited = FALSE
    /\ exit_code = 0
    /\ bi = 0
    /\ ri = 0
    /\ cl = NoLocals
    /\ all_urls = << >>
    /\ qhead = 1
    /\ wpc = [w \in Workers |-> "idle"]
    /\ wtask = [w \in Workers |-> 0]
    /\ wl = [w \in Workers |-> NoLocals]
    /\ completed = 0
    /\ done = 0
    /\ probe_started = FALSE
    /\ stopped_early = FALSE
    /\ any_request = FALSE
    /\ passed = EmptyBag
    /\ fetched = EmptyBag
    /\ recorded = {}
    /\ attempts = << >>
    /\ summary = {}

\* no pure function is called on its own in a run of the program
NoCall == [ fn |-> "", arg |-> << >>, n |-> 0, out |-> << >>, again |-> << >>,
            gen |-> << >>, fresh |-> << >> ]

\* the answers to the prompt of _get_test_params that select its three branches
Choices == { "s", "p", "b" }

\* the switches _get_test_params sets for an answer: s = no write tests,
\* p = PUT and GET, anything else = all
TestParams(choice) ==
    [ test_put |-> choice # "s", test_delete |-> choice \notin {"s", "p"} ]

\* the checks a probe makes under an answer when each call before succeeds:
\* the PUT under `if test_put`, the GET under `if put_ok`, the DELETE under
\* `if test_delete and put_ok`
ChecksMade(choice) ==
    [ write |-> TestParams(choice).test_put,
      read |-> TestParams(choice).test_put /\ GetEligible(TRUE),
      delete |-> TestParams(choice).test_put
                    /\ DeleteEligible(TestParams(choice).test_delete, TRUE) ]

\* the requests one probe can make under an answer: the listing, then PUT and
\* GET, then DELETE
RequestsPerProbe(choice) ==
    IF choice = "s" THEN 1 ELSE IF choice = "p" THEN 3 ELSE 4

\* the size of a run: the distinct URLs submitted to the pool, times the
\* square of the pool's width, times (for a pool of several threads) the
\* requests of a probe; and as many times again for each attempt of the
\* External-Tool channel run before it
Work(run_web, run_cli, threads, variations, regions, choice) ==
    (IF run_web
     THEN Cardinality({ e.url : e \in Range(AllUrls(variations, regions)) })
              * threads * threads
              * (IF threads = 1 THEN 1 ELSE RequestsPerProbe(choice))
     ELSE 1)
    * (IF run_cli THEN 1 + Len(variations) * (Len(regions) + 1) ELSE 1)

\* the runs tried: a command line, the number of regions swept, and whether
\* the aws tool is installed (shutil.which("aws") is consulted only when the
\* CLI channel is to run)
Init ==
    \E a \in Invocations, nreg \in 0..MaxRegions :
        \E tool \in (IF a.web_only THEN {TRUE} ELSE BOOLEAN) :
            /\ InitOf(a, nreg, tool)
            /\ call = NoCall
            /\ Work(RUN_WEB, RUN_CLI, THREADS, VARIATIONS, REGIONS, "s") <= MaxWork

(***************************************************************************)
(* The main thread: start-up.                                              *)
(***************************************************************************)
mainVars == << mpc, sig_int_or_term, exited, exit_code >>

\* a faulty start-up: the run goes on without looking for the aws tool
MainStartWithoutToolCheck ==
    /\ ~exited /\ mpc = "start"
    /\ mpc' = "params"
    /\ UNCHANGED << fnVars, ex_shutdown_lock, attempts, summary, cfgVars,
                    paramVars, STOP_ALL, ledgerVars, LOCK, tdir_exists,
                    sig_int_or_term, exited, exit_code, cliVars, webVars,
                    histVars >>

\* `if RUN_CLI and not shutil.which("aws"): sys.exit(1)`
MainStart ==
    /\ ~exited /\ mpc = "start"
    /\ IF RUN_CLI /\ ~aws_installed
       THEN exited' = TRUE /\ exit_code' = 1 /\ mpc' = "exit"
       ELSE mpc' = "params" /\ UNCHANGED << exited, exit_code >>
    /\ UNCHANGED << fnVars, ex_shutdown_lock, attempts, summary, cfgVars,
                    paramVars, STOP_ALL, ledgerVars, LOCK, tdir_exists,
                    sig_int_or_term, cliVars, webVars, histVars >>

\* a faulty hand-over: a run of both channels starts with the Direct-Protocol
\* channel, and the External-Tool channel is not run before it
GetTestParamsWebFirst(choice) ==
    /\ ~exited /\ mpc = "params"
    /\ Work(RUN_WEB, RUN_CLI, THREADS, VARIATIONS, REGIONS, choice) <= MaxWork
    /\ test_put' = TestParams(choice).test_put
    /\ test_delete' = TestParams(choice).test_delete
    /\ mpc' = IF RUN_WEB THEN "web_submit" ELSE "cli_loop"
    /\ bi' = 1
    /\ UNCHANGED << fnVars, ex_shutdown_lock, attempts, summary, cfgVars,
                    STOP_ALL, ledgerVars, LOCK, tdir_exists, sig_int_or_term,
                    exited, exit_code, ri, cl, webVars, histVars >>

\* _get_test_params: s = no write tests, p = PUT and GET, anything else = all
\* (the answers tried are those that keep the run within MaxWork)
GetTestParams(choice) ==
    /\ ~exited /\ mpc = "params"
    /\ Work(RUN_WEB, RUN_CLI, THREADS, VARIATIONS, REGIONS, choice) <= MaxWork
    /\ test_put' = TestParams(choice).test_put
    /\ test_delete' = TestParams(choice).test_delete
    /\ mpc' = IF RUN_CLI THEN "cli_loop" ELSE "web_submit"
    /\ bi' = 1
    /\ UNCHANGED << fnVars, ex_shutdown_lock, attempts, summary, cfgVars,
                    STOP_ALL, ledgerVars, LOCK, tdir_exists, sig_int_or_term,
                    exited, exit_code, ri, cl, webVars, histVars >>

(***************************************************************************)
(* The External-Tool channel, run by the main thread.                      *)
(***************************************************************************)
\* _run_cli: the loop over VARIATIONS, and the entry of _cli_probe
CliLoop ==
    /\ ~exited /\ mpc = "cli_loop"
    /\ IF bi > Len(VARIATIONS) \/ STOP_ALL
       THEN /\ mpc' = IF RUN_WEB THEN "web_submit" ELSE "summary"
            /\ UNCHANGED ri
       ELSE /\ ri' = 0
            /\ mpc' = "cli_region"
    /\ UNCHANGED << fnVars, ex_shutdown_lock, attempts, summary, cfgVars,
                    paramVars, STOP_ALL, ledgerVars, LOCK, tdir_exists,
                    sig_int_or_term, exited, exit_code, bi, cl, webVars,
                    histVars >>

\* _cli_probe: the loop over [None] + REGIONS, its stop test, and the entry of
\* _progress_counter
CliRegionStep ==
    /\ ~exited /\ mpc = "cli_region"
    /\ IF ri > Len(REGIONS) \/ STOP_ALL
       THEN /\ bi' = bi + 1
            /\ mpc' = "cli_loop"
            /\ UNCHANGED << LOCK, probe_started >>
       ELSE /\ LOCK = "free"
            /\ LOCK' = "main"
            /\ probe_started' = TRUE
            /\ mpc' = "cli_prog"
            /\ UNCHANGED bi
    /\ UNCHANGED << fnVars, ex_shutdown_lock, attempts, summary, cfgVars,
                    paramVars, STOP_ALL, ledgerVars, tdir_exists,
                    sig_int_or_term, exited, exit_code, ri, cl, webVars,
                    stopped_early, any_request, passed, fetched, recorded >>

\* the exit of _progress_counter and the already-found test
CliProgress ==
    /\ ~exited /\ mpc = "cli_prog"
    /\ LOCK' = "free"
    /\ mpc' = IF AlreadyFound(FOUND_BUCKETS, CliBucket, CliRegion)
              THEN "cli_skip" ELSE "cli_ls"
    /\ attempts' = Append(attempts,
                          [ bucket |-> CliBucket, bi |-> bi, ri |-> ri,
                            skipped |-> AlreadyFound(FOUND_BUCKETS, CliBucket,
                                                     CliRegion) ])
    /\ UNCHANGED << fnVars, ex_shutdown_lock, summary, cfgVars, paramVars,
                    STOP_ALL, ledgerVars, tdir_exists, sig_int_or_term, exited,
                    exit_code, cliVars, webVars, histVars >>

\* `continue`
CliSkip ==
    /\ ~exited /\ mpc = "cli_skip"
    /\ ri' = ri + 1
    /\ mpc' = "cli_region"
    /\ UNCHANGED << fnVars, ex_shutdown_lock, attempts, summary, cfgVars,
                    paramVars, STOP_ALL, ledgerVars, LOCK, tdir_exists,
                    sig_int_or_term, exited, exit_code, bi, cl, webVars,
                    histVars >>

\* aws s3 ls: accessible when the output holds "Total Objects: N"
CliListing ==
    /\ ~exited /\ mpc = "cli_ls"
    /\ \E ok \in BOOLEAN : cl' = [cl EXCEPT !.bucket_accessible = ok]
    /\ any_request' = TRUE
    /\ mpc' = "cli_" \o AfterListing(test_put)
    /\ UNCHANGED << fnVars, ex_shutdown_lock, attempts, summary, cfgVars,
                    paramVars, STOP_ALL, ledgerVars, LOCK, tdir_exists,
                    sig_int_or_term, exited, exit_code, bi, ri, webVars,
                    probe_started, stopped_early, passed, fetched, recorded >>

\* aws s3 cp (upload)
CliPut ==
    /\ ~exited /\ mpc = "cli_put"
    /\ \E ok \in BOOLEAN :
          /\ cl' = [cl EXCEPT !.put_ok = ok, !.nput = @ + 1]
          /\ mpc' = "cli_" \o AfterPut(test_delete, ok)
    /\ any_request' = TRUE
    /\ UNCHANGED << fnVars, ex_shutdown_lock, attempts, summary, cfgVars,
                    paramVars, STOP_ALL, ledgerVars, LOCK, tdir_exists,
                    sig_int_or_term, exited, exit_code, bi, ri, webVars,
                    probe_started, stopped_early, passed, fetched, recorded >>

\* aws s3 cp (download)
CliGet ==
    /\ ~exited /\ mpc = "cli_get"
    /\ \E ok \in BOOLEAN : cl' = [cl EXCEPT !.get_ok = ok, !.nget = @ + 1]
    /\ mpc' = "cli_" \o AfterGet(test_delete, cl.put_ok)
    /\ any_request' = TRUE
    /\ UNCHANGED << fnVars, ex_shutdown_lock, attempts, summary, cfgVars,
                    paramVars, STOP_ALL, ledgerVars, LOCK, tdir_exists,
                    sig_int_or_term, exited, exit_code, bi, ri, webVars,
                    probe_started, stopped_early, passed, fetched, recorded >>

\* aws s3 rm
CliDelete ==
    /\ ~exited /\ mpc = "cli_del"
    /\ \E ok \in BOOLEAN : cl' = [cl EXCEPT !.del_ok = ok, !.ndel = @ + 1]
    /\ mpc' = "cli_report"
    /\ any_request' = TRUE
    /\ UNCHANGED << fnVars, ex_shutdown_lock, attempts, summary, cfgVars,
                    paramVars, STOP_ALL, ledgerVars, LOCK, tdir_exists,
                    sig_int_or_term, exited, exit_code, bi, ri, webVars,
                    probe_started, stopped_early, passed, fetched, recorded >>

\* the report: a finding calls _mark_found(bucket, label), which touches
\* FOUND_FLAG and takes LOCK; otherwise _log takes LOCK
CliReport ==
    /\ ~exited /\ mpc = "cli_report"
    /\ LOCK = "free"
    /\ LOCK' = "main"
    /\ IF IsFinding(cl)
       THEN /\ cl' = [cl EXCEPT !.called = TRUE, !.marked_as = CliBucket]
            /\ mpc' = "cli_mark"
       ELSE /\ mpc' = "cli_log"
            /\ UNCHANGED cl
    /\ UNCHANGED << fnVars, ex_shutdown_lock, attempts, summary, cfgVars,
                    paramVars, STOP_ALL, ledgerVars, tdir_exists,
                    sig_int_or_term, exited, exit_code, bi, ri, webVars,
                    histVars >>

\* _mark_found under LOCK, then the BASE_FOUND test
CliMark ==
    /\ ~exited /\ mpc = "cli_mark"
    /\ FOUND_BUCKETS' = MarkFoundMap(FOUND_BUCKETS, CliBucket, Label(CliRegion))
    /\ BASE_FOUND' = MarkFoundSignal(BASE_FOUND, CliBucket, BASE)
    /\ recorded' = recorded \cup { << CliBucket, Label(CliRegion) >> }
    /\ LOCK' = "free"
    /\ mpc' = "cli_logacq"
    /\ UNCHANGED << fnVars, ex_shutdown_lock, attempts, summary, cfgVars,
                    paramVars, STOP_ALL, CHECKED_SET, tdir_exists,
                    sig_int_or_term, exited, exit_code, cliVars, webVars,
                    probe_started, stopped_early, any_request, passed,
                    fetched >>

\* _log of the finding: takes LOCK
CliLogAcquire ==
    /\ ~exited /\ mpc = "cli_logacq"
    /\ LOCK = "free"
    /\ LOCK' = "main"
    /\ mpc' = "cli_log"
    /\ UNCHANGED << fnVars, ex_shutdown_lock, attempts, summary, cfgVars,
                    paramVars, STOP_ALL, ledgerVars, tdir_exists,
                    sig_int_or_term, exited, exit_code, cliVars, webVars,
                    histVars >>

\* _log prints the line ("Found" or "Access Denied (but operations work)" for
\* a finding, "Not accessible" otherwise) and releases LOCK
CliLog ==
    /\ ~exited /\ mpc = "cli_log"
    /\ LOCK' = "free"
    /\ cl' = [cl EXCEPT !.printed = IsFinding(cl)]
    /\ mpc' = "cli_end"
    /\ UNCHANGED << fnVars, ex_shutdown_lock, attempts, summary, cfgVars,
                    paramVars, STOP_ALL, ledgerVars, tdir_exists,
                    sig_int_or_term, exited, exit_code, bi, ri, webVars,
                    histVars >>

\* the end of one region's attempt
CliEnd ==
    /\ ~exited /\ mpc = "cli_end"
    /\ ri' = ri + 1
    /\ cl' = NoLocals
    /\ mpc' = "cli_region"
    /\ UNCHANGED << fnVars, ex_shutdown_lock, attempts, summary, cfgVars,
                    paramVars, STOP_ALL, ledgerVars, LOCK, tdir_exists,
                    sig_int_or_term, exited, exit_code, bi, webVars,
                    histVars >>

(***************************************************************************)
(* The Direct-Protocol channel: _run_web in the main thread.               *)
(***************************************************************************)
\* build all_urls, create the pool, register it in EXECUTORS, and enter
\* ex.submit, which takes the pool's lock
WebSubmit ==
    /\ ~exited /\ mpc = "web_submit"
    /\ all_urls' = AllUrls(VARIATIONS, REGIONS)
    /\ qhead' = 1
    /\ ex_shutdown_lock' = "main"
    /\ mpc' = "web_submitting"
    /\ UNCHANGED << fnVars, attempts, summary, cfgVars, paramVars, STOP_ALL,
                    ledgerVars, LOCK, tdir_exists, sig_int_or_term, exited,
                    exit_code, cliVars, poolVars, done, histVars >>

\* the last ex.submit returns and releases the pool's lock
WebSubmitted ==
    /\ ~exited /\ mpc = "web_submitting"
    /\ ex_shutdown_lock' = "free"
    /\ mpc' = "web_loop"
    /\ UNCHANGED << fnVars, attempts, summary, cfgVars, paramVars, STOP_ALL,
                    ledgerVars, LOCK, tdir_exists, sig_int_or_term, exited,
                    exit_code, cliVars, webVars, histVars >>

\* `for _ in cf.as_completed(futures): done += 1`, and the entry of
\* _progress_counter; the loop ends when every future has been yielded
WebLoop ==
    /\ ~exited /\ mpc = "web_loop"
    /\ IF done = Len(all_urls)
       THEN /\ mpc' = "web_join"
            /\ UNCHANGED << done, LOCK >>
       ELSE /\ done < completed
            /\ LOCK = "free"
            /\ LOCK' = "main"
            /\ done' = done + 1
            /\ mpc' = "web_prog"
    /\ UNCHANGED << fnVars, ex_shutdown_lock, attempts, summary, cfgVars,
                    paramVars, STOP_ALL, ledgerVars, tdir_exists,
                    sig_int_or_term, exited, exit_code, cliVars, all_urls,
                    qhead, poolVars, histVars >>

\* the exit of _progress_counter, and `if STOP_ALL.is_set(): break`
WebProgress ==
    /\ ~exited /\ mpc = "web_prog"
    /\ LOCK' = "free"
    /\ mpc' = IF STOP_ALL THEN "web_join" ELSE "web_loop"
    /\ UNCHANGED << fnVars, ex_shutdown_lock, attempts, summary, cfgVars,
                    paramVars, STOP_ALL, ledgerVars, tdir_exists,
                    sig_int_or_term, exited, exit_code, cliVars, webVars,
                    histVars >>

\* the end of the `with` block: shutdown(wait=True) joins the workers
WebJoin ==
    /\ ~exited /\ mpc = "web_join"
    /\ qhead > Len(all_urls)
    /\ \A w \in 1..THREADS : wpc[w] = "idle"
    /\ mpc' = "summary"
    /\ UNCHANGED << fnVars, ex_shutdown_lock, attempts, summary, cfgVars,
                    paramVars, STOP_ALL, ledgerVars, LOCK, tdir_exists,
                    sig_int_or_term, exited, exit_code, cliVars, webVars,
                    histVars >>

\* [bucket for bucket in BASE_BUCKETS if bucket in FOUND_BUCKETS]
found_base_buckets(base_buckets, found) ==
    SelectSeq(base_buckets, LAMBDA b : b \in DOMAIN found)

\* the lines of the summary: the base bucket line, the additional-variations
\* line, the nothing-found line
SummaryLines(base_buckets, found) ==
    (IF Len(found_base_buckets(base_buckets, found)) > 0
     THEN {"base found"} ELSE {})
    \cup
    (IF DOMAIN found # {}
        /\ Cardinality(DOMAIN found) > Len(found_base_buckets(base_buckets, found))
     THEN {"additional found"} ELSE {})
    \cup
    (IF DOMAIN found = {} THEN {"none found"} ELSE {})

\* the summary, and the normal end of the process
Summary ==
    /\ ~exited /\ mpc = "summary"
    /\ summary' = SummaryLines(BASE_BUCKETS, FOUND_BUCKETS)
    /\ exited' = TRUE
    /\ exit_code' = 0
    /\ mpc' = "done"
    /\ UNCHANGED << fnVars, ex_shutdown_lock, attempts, cfgVars, paramVars,
                    STOP_ALL, ledgerVars, LOCK, tdir_exists, sig_int_or_term,
                    cliVars, webVars, histVars >>

(***************************************************************************)
(* The pool workers: _web_check.                                           *)
(***************************************************************************)
WUrl(w) == all_urls[wtask[w]].url

\* a worker thread takes the next queued work item and enters `with LOCK:` of
\* _web_check.  Which idle thread gets the item is not observable, so the
\* lowest-numbered one does.
WTake(w) ==
    /\ ~exited /\ w <= THREADS /\ wpc[w] = "idle"
    /\ \A v \in 1..(w - 1) : wpc[v] # "idle"
    /\ qhead <= Len(all_urls)
    /\ LOCK = "free"
    /\ LOCK' = WName(w)
    /\ wtask' = [wtask EXCEPT ![w] = qhead]
    /\ qhead' = qhead + 1
    /\ wpc' = [wpc EXCEPT ![w] = "guard"]
    /\ UNCHANGED << fnVars, ex_shutdown_lock, attempts, summary, cfgVars,
                    paramVars, STOP_ALL, ledgerVars, tdir_exists, mainVars,
                    cliVars, all_urls, wl, completed, done, histVars >>

\* `if url in CHECKED_SET or STOP_ALL.is_set(): return`
WGuard(w) ==
    /\ ~exited /\ wpc[w] = "guard"
    /\ IF WebCheckSkips(CHECKED_SET, STOP_ALL, WUrl(w))
       THEN /\ LOCK' = "free"
            /\ wpc' = [wpc EXCEPT ![w] = "idle"]
            /\ wtask' = [wtask EXCEPT ![w] = 0]
            /\ completed' = completed + 1
            /\ UNCHANGED << done, passed, probe_started >>
       ELSE /\ wpc' = [wpc EXCEPT ![w] = "add"]
            /\ passed' = passed (+) SetToBag({WUrl(w)})
            /\ probe_started' = TRUE
            /\ UNCHANGED << LOCK, wtask, completed, done >>
    /\ UNCHANGED << fnVars, ex_shutdown_lock, attempts, summary, cfgVars,
                    paramVars, STOP_ALL, ledgerVars, tdir_exists, mainVars,
                    cliVars, all_urls, qhead, wl, stopped_early, any_request,
                    fetched, recorded >>

\* `CHECKED_SET.add(url)` and the end of the `with` block
WAdd(w) ==
    /\ ~exited /\ wpc[w] = "add"
    /\ CHECKED_SET' = CHECKED_SET \cup {WUrl(w)}
    /\ LOCK' = "free"
    /\ wpc' = [wpc EXCEPT ![w] = "fetch"]
    /\ UNCHANGED << fnVars, ex_shutdown_lock, attempts, summary, cfgVars,
                    paramVars, STOP_ALL, FOUND_BUCKETS, BASE_FOUND,
                    tdir_exists, mainVars, cliVars, all_urls, qhead, wtask, wl,
                    completed, done, histVars >>

\* _fetch(url) and the classification of its answer
WFetch(w) ==
    /\ ~exited /\ wpc[w] = "fetch"
    /\ \E label \in Classifications :
          wl' = [wl EXCEPT ![w].bucket_accessible = (label # "")]
    /\ fetched' = fetched (+) SetToBag({WUrl(w)})
    /\ any_request' = TRUE
    /\ wpc' = [wpc EXCEPT ![w] = AfterListing(test_put)]
    /\ UNCHANGED << fnVars, ex_shutdown_lock, attempts, summary, cfgVars,
                    paramVars, STOP_ALL, ledgerVars, LOCK, tdir_exists,
                    mainVars, cliVars, all_urls, qhead, wtask, completed, done,
                    probe_started, stopped_early, passed, recorded >>

\* the PUT of the test object: ok on status 200, 201 or 204
WPut(w) ==
    /\ ~exited /\ wpc[w] = "put"
    /\ \E ok \in BOOLEAN :
          /\ wl' = [wl EXCEPT ![w].put_ok = ok, ![w].nput = @ + 1]
          /\ wpc' = [wpc EXCEPT ![w] = AfterPut(test_delete, ok)]
    /\ any_request' = TRUE
    /\ UNCHANGED << fnVars, ex_shutdown_lock, attempts, summary, cfgVars,
                    paramVars, STOP_ALL, ledgerVars, LOCK, tdir_exists,
                    mainVars, cliVars, all_urls, qhead, wtask, completed, done,
                    probe_started, stopped_early, passed, fetched, recorded >>

\* the GET of the test object: ok on status 200
WGet(w) ==
    /\ ~exited /\ wpc[w] = "get"
    /\ \E ok \in BOOLEAN : wl' = [wl EXCEPT ![w].get_ok = ok, ![w].nget = @ + 1]
    /\ wpc' = [wpc EXCEPT ![w] = AfterGet(test_delete, wl[w].put_ok)]
    /\ any_request' = TRUE
    /\ UNCHANGED << fnVars, ex_shutdown_lock, attempts, summary, cfgVars,
                    paramVars, STOP_ALL, ledgerVars, LOCK, tdir_exists,
                    mainVars, cliVars, all_urls, qhead, wtask, completed, done,
                    probe_started, stopped_early, passed, fetched, recorded >>

\* the DELETE of the test object: ok on status 200 or 204
WDelete(w) ==
    /\ ~exited /\ wpc[w] = "del"
    /\ \E ok \in BOOLEAN : wl' = [wl EXCEPT ![w].del_ok = ok, ![w].ndel = @ + 1]
    /\ wpc' = [wpc EXCEPT ![w] = "report"]
    /\ any_request' = TRUE
    /\ UNCHANGED << fnVars, ex_shutdown_lock, attempts, summary, cfgVars,
                    paramVars, STOP_ALL, ledgerVars, LOCK, tdir_exists,
                    mainVars, cliVars, all_urls, qhead, wtask, completed, done,
                    probe_started, stopped_early, passed, fetched, recorded >>

\* the report: a finding resolves the bucket name and calls
\* _mark_found(bucket_name or BASE, None); without a finding the call returns.
\* The outcome flags are not read after this test.
WReport(w) ==
    /\ ~exited /\ wpc[w] = "report"
    /\ IF IsFinding(wl[w])
       THEN /\ wl' = [wl EXCEPT ![w] =
                        [NoLocals EXCEPT !.called = TRUE,
                             !.marked_as = ResolveBucket(VARIATIONS, BASE, WUrl(w))]]
            /\ wpc' = [wpc EXCEPT ![w] = "touch"]
            /\ UNCHANGED << wtask, completed >>
       ELSE /\ wl' = [wl EXCEPT ![w] = NoLocals]
            /\ wpc' = [wpc EXCEPT ![w] = "idle"]
            /\ wtask' = [wtask EXCEPT ![w] = 0]
            /\ completed' = completed + 1
    /\ UNCHANGED << fnVars, ex_shutdown_lock, attempts, summary, cfgVars,
                    paramVars, STOP_ALL, ledgerVars, LOCK, tdir_exists,
                    mainVars, cliVars, all_urls, qhead, done, histVars >>

\* _mark_found: FOUND_FLAG.touch(), which raises once _cleanup has removed
\* TDIR; the exception ends the call and is kept in its future
WTouch(w) ==
    /\ ~exited /\ wpc[w] = "touch"
    /\ IF tdir_exists
       THEN /\ wpc' = [wpc EXCEPT ![w] = "mark"]
            /\ UNCHANGED << wl, wtask, completed >>
       ELSE /\ wl' = [wl EXCEPT ![w] = NoLocals]
            /\ wpc' = [wpc EXCEPT ![w] = "idle"]
            /\ wtask' = [wtask EXCEPT ![w] = 0]
            /\ completed' = completed + 1
    /\ UNCHANGED << fnVars, ex_shutdown_lock, attempts, summary, cfgVars,
                    paramVars, STOP_ALL, ledgerVars, LOCK, tdir_exists,
                    mainVars, cliVars, all_urls, qhead, done, histVars >>

\* _mark_found: `with LOCK:`
WMarkAcquire(w) ==
    /\ ~exited /\ wpc[w] = "mark"
    /\ LOCK = "free"
    /\ LOCK' = WName(w)
    /\ wpc' = [wpc EXCEPT ![w] = "marking"]
    /\ UNCHANGED << fnVars, ex_shutdown_lock, attempts, summary, cfgVars,
                    paramVars, STOP_ALL, ledgerVars, tdir_exists, mainVars,
                    cliVars, all_urls, qhead, wtask, wl, completed, done,
                    histVars >>

\* _mark_found(bucket_name or BASE, None) under LOCK, then the BASE_FOUND test
WMark(w) ==
    /\ ~exited /\ wpc[w] = "marking"
    /\ FOUND_BUCKETS' = MarkFoundMap(FOUND_BUCKETS, wl[w].marked_as, NoRegion)
    /\ BASE_FOUND' = MarkFoundSignal(BASE_FOUND, wl[w].marked_as, BASE)
    /\ recorded' = recorded \cup { << wl[w].marked_as, NoRegion >> }
    /\ LOCK' = "free"
    /\ wpc' = [wpc EXCEPT ![w] = "print"]
    /\ UNCHANGED << fnVars, ex_shutdown_lock, attempts, summary, cfgVars,
                    paramVars, STOP_ALL, CHECKED_SET, tdir_exists, mainVars,
                    cliVars, all_urls, qhead, wtask, wl, completed, done,
                    probe_started, stopped_early, any_request, passed,
                    fetched >>

\* the "[Web] ..." line: `with LOCK:`
WPrintAcquire(w) ==
    /\ ~exited /\ wpc[w] = "print"
    /\ LOCK = "free"
    /\ LOCK' = WName(w)
    /\ wpc' = [wpc EXCEPT ![w] = "printing"]
    /\ UNCHANGED << fnVars, ex_shutdown_lock, attempts, summary, cfgVars,
                    paramVars, STOP_ALL, ledgerVars, tdir_exists, mainVars,
                    cliVars, all_urls, qhead, wtask, wl, completed, done,
                    histVars >>

\* the line is printed, LOCK released, and _web_check returns
WPrint(w) ==
    /\ ~exited /\ wpc[w] = "printing"
    /\ LOCK' = "free"
    /\ wl' = [wl EXCEPT ![w] = NoLocals]
    /\ wpc' = [wpc EXCEPT ![w] = "idle"]
    /\ wtask' = [wtask EXCEPT ![w] = 0]
    /\ completed' = completed + 1
    /\ UNCHANGED << fnVars, ex_shutdown_lock, attempts, summary, cfgVars,
                    paramVars, STOP_ALL, ledgerVars, tdir_exists, mainVars,
                    cliVars, all_urls, qhead, done, histVars >>

(***************************************************************************)
(* The signal handler _cleanup, run by the main thread in place of what it *)
(* was doing; it never returns.                                            *)
(***************************************************************************)
\* os._exit's argument
ExitCodeOf(int_or_term) == IF int_or_term THEN 130 ELSE 0

\* SIGINT or SIGTERM arrives (also while the handler runs): STOP_ALL.set().
\* The interrupted frame is never resumed, so the loop counter of _run_web
\* is dropped with it.
Interrupt(s) ==
    /\ ~exited /\ mpc \notin {"done", "exit"}
    /\ STOP_ALL' = TRUE
    /\ sig_int_or_term' = (s \in {SIGINT, SIGTERM})
    /\ stopped_early' = IF STOP_ALL THEN stopped_early ELSE ~probe_started
    /\ done' = 0
    /\ mpc' = "cleanup"
    /\ UNCHANGED << fnVars, ex_shutdown_lock, attempts, summary, cfgVars,
                    paramVars, ledgerVars, LOCK, tdir_exists, exited,
                    exit_code, cliVars, all_urls, qhead, poolVars,
                    probe_started, any_request, passed, fetched, recorded >>

\* `ex.shutdown(wait=False, cancel_futures=True)` for the pool in EXECUTORS:
\* the queued work items are dropped, the running ones go on; then the
\* checked_urls file is written and TDIR removed
CleanupShutdown ==
    /\ ~exited /\ mpc = "cleanup"
    /\ ex_shutdown_lock = "free"
    /\ qhead' = Len(all_urls) + 1
    /\ tdir_exists' = FALSE
    /\ mpc' = "cleanup_exit"
    /\ UNCHANGED << fnVars, ex_shutdown_lock, attempts, summary, cfgVars,
                    paramVars, STOP_ALL, ledgerVars, LOCK, sig_int_or_term,
                    exited, exit_code, cliVars, all_urls, poolVars, done,
                    histVars >>

\* os._exit(130 if _sig in (SIGINT, SIGTERM) else 0)
CleanupExit ==
    /\ ~exited /\ mpc = "cleanup_exit"
    /\ exited' = TRUE
    /\ exit_code' = ExitCodeOf(sig_int_or_term)
    /\ mpc' = "exit"
    /\ UNCHANGED << fnVars, ex_shutdown_lock, attempts, summary, cfgVars,
                    paramVars, STOP_ALL, ledgerVars, LOCK, tdir_exists,
                    sig_int_or_term, cliVars, webVars, histVars >>

(***************************************************************************)
(* The specification of a run.                                             *)
(***************************************************************************)
MainStep ==
    \/ MainStart
    \/ \E choice \in Choices : GetTestParams(choice)
    \/ Summary

CliStep ==
    \/ CliLoop \/ CliRegionStep \/ CliProgress \/ CliSkip
    \/ CliListing \/ CliPut \/ CliGet \/ CliDelete
    \/ CliReport \/ CliMark \/ CliLogAcquire \/ CliLog \/ CliEnd

WebMainStep == WebSubmit \/ WebSubmitted \/ WebLoop \/ WebProgress \/ WebJoin

WorkerStep ==
    \E w \in Workers :
        \/ WTake(w) \/ WGuard(w) \/ WAdd(w) \/ WFetch(w)
        \/ WPut(w) \/ WGet(w) \/ WDelete(w) \/ WReport(w) \/ WTouch(w)
        \/ WMarkAcquire(w) \/ WMark(w) \/ WPrintAcquire(w) \/ WPrint(w)

SignalStep ==
    \/ \E s \in {SIGINT, SIGTERM} : Interrupt(s)
    \/ CleanupShutdown \/ CleanupExit

Next == MainStep \/ CliStep \/ WebMainStep \/ WorkerStep \/ SignalStep

Spec == Init /\ [][Next]_vars

\* a run that no signal interrupts, with every thread scheduled and every
\* request answered
Uncancelled == MainStep \/ CliStep \/ WebMainStep \/ WorkerStep

LiveSpec == Init /\ [][Uncancelled]_vars /\ WF_vars(Uncancelled)

\* any run, in which the main thread, once in the handler, keeps running it;
\* nothing is assumed of the pool workers or of the requests in flight
CancelSpec == Init /\ [][Next]_vars /\ WF_vars(CleanupShutdown \/ CleanupExit)

(***************************************************************************)
(* The pure functions called on their own: the classification of           *)
(* _web_check, _variations, _get_all_variations and _endpoints.            *)
(***************************************************************************)
progVars == << cfgVars, paramVars, STOP_ALL, ledgerVars, LOCK, tdir_exists,
               mainVars, cliVars, webVars, histVars, attempts, summary,
               ex_shutdown_lock >>

\* base names given to _variations: plain ones, ones holding the characters
\* its replace() transforms look for, and ones equal to an affix it adds
BaseStrings == { "a", "ab", "a_b", "a-b", "a.b", "a.b_c-d", "s3", "dev", "-" }

\* contents of BASE_BUCKETS given to _get_all_variations
NameLists ==
    { << "ab" >>, << "ab", "ab" >>, << "ab", "ab-dev" >>, << "ab-dev", "ab" >>,
      << "a_b", "a-b" >>, << "ab", "cd", "ab" >> }

\* (bucket, region) pairs given to _endpoints
EndpointArgs == [ bucket : { "ab", "a.b" },
                  region : {NoRegion} \cup Range(REGIONS_ALL) ]

\* the calls tried
Calls ==
    { [ NoCall EXCEPT !.fn = f, !.arg = x ] :
        f \in {"classify"}, x \in Responses }
    \cup
    { [ NoCall EXCEPT !.fn = f, !.arg = x ] :
        f \in {"_variations"}, x \in BaseStrings }
    \cup
    { [ NoCall EXCEPT !.fn = f, !.arg = x ] :
        f \in {"_get_all_variations"},
        x \in [ base_buckets : NameLists, name_variations : BOOLEAN ] }
    \cup
    { [ NoCall EXCEPT !.fn = f, !.arg = x ] :
        f \in {"_endpoints"}, x \in EndpointArgs }

\* the call returns v: the first result is kept in out, the second in again
Returned(c, v) ==
    IF c.n = 0 THEN [c EXCEPT !.n = 1, !.out = v]
    ELSE [c EXCEPT !.n = 2, !.again = v]

\* `status, body, _ = _fetch(url)` and the classification that follows
CallClassify ==
    /\ call.fn = "classify" /\ call.n < 2
    /\ call' = Returned(call, Classify(call.arg))
    /\ UNCHANGED progVars

CallVariations ==
    /\ call.fn = "_variations" /\ call.n < 2
    /\ call' = Returned(call, _variations(call.arg))
    /\ UNCHANGED progVars

CallGetAllVariations ==
    /\ call.fn = "_get_all_variations" /\ call.n < 2
    /\ call' = Returned(call, _get_all_variations(call.arg.base_buckets,
                                                  call.arg.name_variations))
    /\ UNCHANGED progVars

\* what a generator still yields after k of its items were taken
GeneratorAfter(items, k) == SubSeq(items, k + 1, Len(items))

\* g = _endpoints(bucket, region); list(g): the first call's generator is
\* iterated to its end (out); a later, fresh call is iterated likewise (fresh)
CallEndpoints ==
    /\ call.fn = "_endpoints" /\ call.n \in {0, 2}
    /\ LET items == _endpoints(call.arg.bucket, call.arg.region)
       IN  call' = IF call.n = 0
                   THEN [call EXCEPT !.n = 1, !.out = items,
                                     !.gen = GeneratorAfter(items, Len(items))]
                   ELSE [call EXCEPT !.n = 3, !.fresh = items]
    /\ UNCHANGED progVars

\* list(g) once more, on the generator the first call returned
ReIterateEndpoints ==
    /\ call.fn = "_endpoints" /\ call.n = 1
    /\ call' = [call EXCEPT !.n = 2, !.again = call.gen,
                            !.gen = GeneratorAfter(call.gen, Len(call.gen))]
    /\ UNCHANGED progVars

\* the program itself is at its start, `-b ab -w`
FnInit ==
    /\ InitOf([ bucket |-> "ab", list |-> << >>, web_only |-> TRUE,
                cli_only |-> FALSE, name_variations |-> FALSE, threads |-> 1 ],
              0, TRUE)
    /\ call \in Calls

FnNext ==
    \/ CallClassify \/ CallVariations \/ CallGetAllVariations
    \/ CallEndpoints \/ ReIterateEndpoints

FnSpec == FnInit /\ [][FnNext]_vars

(***************************************************************************)
(* Properties.                                                             *)
(***************************************************************************)
\* the locals of the probes in progress, in either channel
ProbeLocals == {cl} \cup { wl[w] : w \in Workers }

\* the Direct-Protocol channel has returned to the main program
WebReturned == RUN_WEB /\ mpc \in {"summary", "done"}

\* the endpoints of {candidates} x {no region and every region} x {shapes}
CrossProduct ==
    UNION { Range(_endpoints(p[1], p[2])) :
              p \in Range(VARIATIONS) \X ({NoRegion} \cup Range(REGIONS)) }

\* the listing was judged accessible or one of PUT, GET, DELETE succeeded
AnySuccess(l) == l.bucket_accessible \/ l.put_ok \/ l.get_ok \/ l.del_ok

\* this step starts a listing, PUT, GET or DELETE in either channel
RequestStarts ==
    \/ fetched' # fetched
    \/ \E w \in Workers :
          \/ wl'[w].nput > wl[w].nput
          \/ wl'[w].nget > wl[w].nget
          \/ wl'[w].ndel > wl[w].ndel
    \/ mpc = "cli_ls" /\ mpc' \in {"cli_put", "cli_report"}
    \/ cl'.nput > cl.nput \/ cl'.nget > cl.nget \/ cl'.ndel > cl.ndel

\* C1: no endpoint is probed twice.  For each URL at most one _web_check call
\* passes the test on the checked set, only a call that passed it fetches the
\* URL, the checked set holds exactly the URLs whose call passed and inserted
\* them, and once _run_web has returned every submitted URL was passed by
\* exactly one call and fetched exactly once.
C1_NoEndpointProbedTwice ==
    /\ \A u \in BagToSet(passed) : CopiesIn(u, passed) = 1
    /\ \A u \in BagToSet(fetched) : CopiesIn(u, fetched) <= CopiesIn(u, passed)
    /\ CHECKED_SET \subseteq BagToSet(passed)
    /\ BagToSet(fetched) \subseteq CHECKED_SET
    /\ WebReturned =>
          \A i \in 1..Len(all_urls) :
              /\ CopiesIn(all_urls[i].url, passed) = 1
              /\ CopiesIn(all_urls[i].url, fetched) = 1

\* two workers hold calls for the same URL at once: one is at the test while
\* the other, which passed it, has its request in progress
C1_TwoCallsSameUrl ==
    \E w, v \in 1..THREADS :
        /\ w # v /\ ~STOP_ALL
        /\ wpc[w] = "guard" /\ wpc[v] = "fetch"
        /\ WUrl(w) = WUrl(v)

\* C2: ledger monotonicity.  A candidate in FOUND_BUCKETS, and a region in a
\* candidate's set, stay there in every later state; and each candidate and
\* each region in the map was passed to an earlier _mark_found call.
C2_LedgerMonotone ==
    /\ [](\A b \in DOMAIN FOUND_BUCKETS :
              /\ \E r \in recorded : r[1] = b
              /\ \A g \in FOUND_BUCKETS[b] : << b, g >> \in recorded)
    /\ [][\A b \in DOMAIN FOUND_BUCKETS :
              /\ b \in DOMAIN FOUND_BUCKETS'
              /\ FOUND_BUCKETS[b] \subseteq FOUND_BUCKETS'[b]]_vars

\* a candidate recorded under two regions, by two record-finding calls
C2_TwoRegionsRecorded ==
    \E b \in DOMAIN FOUND_BUCKETS : Cardinality(FOUND_BUCKETS[b]) >= 2

C4_NoRequestAfterStop == [][STOP_ALL => ~RequestStarts]_vars

\* C5: a Direct-Protocol run that is not cancelled returns, and when it has
\* returned every endpoint of the cross-product is in the checked set and was
\* fetched exactly once.
C5_UncancelledWebRunCompletes ==
    /\ (mpc = "web_submit") ~> (mpc = "summary")
    /\ [](WebReturned =>
              \A u \in CrossProduct :
                  u \in CHECKED_SET /\ CopiesIn(u, fetched) = 1)

\* a pool of two threads has finished a URL list that names a URL twice
C5_WidePoolReturned ==
    /\ WebReturned /\ THREADS = 2
    /\ Len(all_urls) > Cardinality(CHECKED_SET)
    /\ CHECKED_SET = CrossProduct

\* C6: in every probe PUT, GET and DELETE are each made at most once; GET only
\* after a successful PUT; DELETE only after a successful PUT and with delete
\* enabled; get_ok or del_ok implies put_ok; with PUT disabled none of the three
\* is made; and a probe whose PUT succeeded reaches its report having made the
\* DELETE (when enabled) whatever the GET returned.
C6_WriteReadDeleteGating ==
    /\ \A l \in ProbeLocals :
          /\ l.nput <= 1 /\ l.nget <= 1 /\ l.ndel <= 1
          /\ l.nget = 1 => l.put_ok
          /\ l.ndel = 1 => (l.put_ok /\ test_delete)
          /\ (l.get_ok \/ l.del_ok) => l.put_ok
          /\ ~test_put => (l.nput = 0 /\ l.nget = 0 /\ l.ndel = 0)
    /\ \A w \in Workers :
          (wpc[w] = "report" /\ wl[w].put_ok /\ test_delete) => wl[w].ndel = 1
    /\ (mpc = "cli_report" /\ cl.put_ok /\ test_delete) => cl.ndel = 1

\* a probe whose GET failed after a successful PUT has made its DELETE
C6_DeleteAfterFailedGet ==
    \E w \in Workers :
        /\ wpc[w] = "report"
        /\ wl[w].put_ok /\ ~wl[w].get_ok /\ wl[w].nget = 1 /\ wl[w].ndel = 1

\* C7: a probe with PUT enabled reaches its report having made the PUT whether
\* or not its listing was accessible; leaving the report it calls _mark_found
\* if and only if the listing was accessible or one of PUT, GET, DELETE
\* succeeded; and the found map changes only in a call of _mark_found, so a
\* probe without any success records nothing.
C7_RecordIffAnySuccess ==
    /\ [](/\ \A w \in Workers :
                (wpc[w] = "report" /\ test_put) => wl[w].nput = 1
          /\ (mpc = "cli_report" /\ test_put) => cl.nput = 1)
    /\ [][/\ \A w \in Workers :
                (wpc[w] = "report" /\ wpc'[w] # "report") =>
                    /\ wl'[w].called <=> AnySuccess(wl[w])
                    /\ ~AnySuccess(wl[w]) => wpc'[w] = "idle"
          /\ (mpc = "cli_report" /\ mpc' \in {"cli_mark", "cli_log"}) =>
                (cl'.called <=> AnySuccess(cl))
          /\ FOUND_BUCKETS' # FOUND_BUCKETS =>
                \/ \E w \in Workers : wpc[w] = "marking" /\ wl[w].called
                \/ mpc = "cli_mark" /\ cl.called]_vars

\* an attempt whose listing failed and whose PUT succeeded has recorded its
\* candidate
C7_RecordedWithoutListing ==
    /\ mpc = "cli_logacq"
    /\ ~cl.bucket_accessible /\ cl.put_ok /\ cl.called
    /\ CliBucket \in DOMAIN FOUND_BUCKETS

\* C8: the candidate the Direct-Protocol channel passes to _mark_found is the
\* candidate from which the endpoint was synthesized.
C8_RecordsOriginCandidate ==
    \A w \in Workers :
        wpc[w] \in {"touch", "mark", "marking"} =>
            wl[w].marked_as = all_urls[wtask[w]].bucket

\* C9: an attempt of the External-Tool channel is skipped only when its exact
\* (bucket, region) pair is in the found map.
C9_SkippedOnlyIfPairFound ==
    mpc = "cli_skip" =>
        /\ CliBucket \in DOMAIN FOUND_BUCKETS
        /\ Label(CliRegion) \in FOUND_BUCKETS[CliBucket]

\* C10: the Direct-Protocol channel prints no "found" line for a pair that the
\* External-Tool channel has already recorded.
C10_NoSecondFoundLine ==
    \A w \in Workers :
        wpc[w] = "printing" =>
            << all_urls[wtask[w]].bucket, Label(all_urls[wtask[w]].region) >>
                \notin recorded

\* C11: for every status and every combination of the four body markers the
\* classification is "Accessible" exactly for status 200 with the listing marker
\* and neither not-found marker, "Found (Access Denied)" exactly for status 403
\* with the access-denied marker and neither not-found marker, and not
\* accessible (no label) for everything else: status 404, status 0 and every
\* body with a not-found marker included.
C11_ClassifierExact ==
    (call.fn = "classify" /\ call.n >= 1) =>
        LET r == call.arg
            notfound == r.NoSuchBucket \/ r.InvalidBucketName
        IN  /\ call.out \in { "Accessible", "Found (Access Denied)", "" }
            /\ call.out = "Accessible" <=>
                  (r.status = 200 /\ r.ListBucketResult /\ ~notfound)
            /\ call.out = "Found (Access Denied)" <=>
                  (r.status = 403 /\ r.AccessDenied /\ ~notfound)
            /\ (r.status \in {0, 404} \/ notfound) => call.out = ""

\* a 403 whose body holds both AccessDenied and InvalidBucketName was
\* classified, as not accessible
C11_DeniedWithInvalidName ==
    /\ call.fn = "classify" /\ call.n >= 1
    /\ call.arg.status = 403 /\ call.arg.AccessDenied
    /\ call.arg.InvalidBucketName /\ ~call.arg.NoSuchBucket
    /\ call.out = ""

\* the (bucket, region) positions of the sweep of the External-Tool channel
CliPositions == (1..Len(VARIATIONS)) \X (0..Len(REGIONS))

\* a probe none of whose calls succeeded is at its report
FailedProbe ==
    \/ mpc = "cli_report" /\ ~AnySuccess(cl)
    \/ \E w \in Workers : wpc[w] = "report" /\ ~AnySuccess(wl[w])

\* C12: a failed probe never aborts the run.  No listing, PUT, GET or DELETE
\* step, failed or not, changes the found map or the base-found signal or ends
\* the process; a probe all of whose calls failed goes from its report to the
\* "not accessible" log line (External-Tool) or returns (Direct-Protocol)
\* without a call of _mark_found; from such a probe the run still reaches the
\* summary; and at the summary every (bucket, region) position of the sweep was
\* begun and every endpoint of the cross-product was requested.
C12_FailureNeverAborts ==
    /\ [][RequestStarts =>
              /\ FOUND_BUCKETS' = FOUND_BUCKETS
              /\ BASE_FOUND' = BASE_FOUND
              /\ exited' = exited]_vars
    /\ [][/\ (mpc = "cli_report" /\ ~AnySuccess(cl)) =>
                 (mpc' \in {"cli_report", "cli_log"} /\ ~cl'.called)
          /\ \A w \in Workers :
                 (wpc[w] = "report" /\ ~AnySuccess(wl[w])) =>
                     (wpc'[w] \in {"report", "idle"} /\ ~wl'[w].called)]_vars
    /\ [](mpc \in {"summary", "done"} =>
              /\ RUN_CLI =>
                    { << a.bi, a.ri >> : a \in Range(attempts) } = CliPositions
              /\ RUN_WEB => \A u \in CrossProduct : CopiesIn(u, fetched) >= 1)
    /\ FailedProbe ~> (mpc = "summary")

\* the run has reached its summary after a sweep whose first attempt failed in
\* every call and a later attempt of which recorded a finding
C12_SweptOnAfterFailure ==
    /\ mpc = "summary" /\ RUN_CLI
    /\ Len(attempts) >= 2 /\ ~attempts[1].skipped
    /\ << attempts[1].bucket, "No Region" >> \notin recorded
    /\ DOMAIN FOUND_BUCKETS # {}

\* C13: when the CLI channel is requested and the aws tool is absent, the main
\* program's only step is the exit with code 1 (a signal's handler may run
\* instead, and exits with its own code): the run never reaches the prompt or
\* either channel, no attempt of _cli_probe is begun, no request is issued, no
\* URL submitted, passed or checked, and nothing is recorded.
C13_ToolMissingStopsBeforeProbing ==
    /\ [](RUN_CLI /\ ~aws_installed =>
              /\ mpc \in {"start", "exit", "cleanup", "cleanup_exit"}
              /\ attempts = << >> /\ ~any_request /\ ~probe_started
              /\ all_urls = << >> /\ passed = EmptyBag /\ fetched = EmptyBag
              /\ CHECKED_SET = {} /\ DOMAIN FOUND_BUCKETS = {}
              /\ recorded = {}
              /\ (exited /\ ~STOP_ALL) => exit_code = 1)
    /\ [][(RUN_CLI /\ ~aws_installed /\ mpc = "start" /\ mpc' # "start") =>
              \/ mpc' = "exit" /\ exited' /\ exit_code' = 1
              \/ STOP_ALL']_vars

\* a run of both channels has exited with code 1 for the missing tool
C13_ExitedForMissingTool ==
    /\ RUN_CLI /\ RUN_WEB /\ ~aws_installed
    /\ exited /\ exit_code = 1 /\ mpc = "exit"

\* C14: when the run has ended with its summary, the summary holds the base
\* line if and only if a requested base name is in the found map, the
\* additional-variations line if and only if the found map holds a candidate
\* that is not a requested base name, and the nothing-found line if and only if
\* the found map is empty.
C14_SummaryDistinguishesOutcomes ==
    mpc = "done" =>
        /\ "base found" \in summary <=>
              (\E b \in Range(BASE_BUCKETS) : b \in DOMAIN FOUND_BUCKETS)
        /\ "additional found" \in summary <=>
              (\E c \in DOMAIN FOUND_BUCKETS : c \notin Range(BASE_BUCKETS))
        /\ "none found" \in summary <=> DOMAIN FOUND_BUCKETS = {}

\* C15: VARIATIONS holds no name twice, and the External-Tool channel begins
\* the attempt of a candidate name with a region at most once in a run.
C15_CandidatesUnique ==
    /\ Cardinality(Range(VARIATIONS)) = Len(VARIATIONS)
    /\ \A i, j \in DOMAIN attempts :
          (attempts[i].bucket = attempts[j].bucket
              /\ attempts[i].ri = attempts[j].ri) => i = j

\* the index of the first occurrence of x in the sequence v
FirstIndex(v, x) ==
    CHOOSE i \in 1..Len(v) : v[i] = x /\ \A j \in 1..(i - 1) : v[j] # x

\* C16: for every non-empty base string b, _variations(b) starts with b, holds
\* no element twice, holds exactly the elements of the transform catalogue in
\* the order of their first occurrence there (b-dev, dev-b, b-logs and b.com
\* among them), and a second call returns the same sequence.
C16_VariationsOrderedUnique ==
    (call.fn = "_variations" /\ call.n >= 1) =>
        LET b == call.arg
            out == call.out
            catalogue == VariationList(b)
        IN  /\ Len(out) >= 1 /\ out[1] = b
            /\ Cardinality(Range(out)) = Len(out)
            /\ Range(out) = Range(catalogue)
            /\ \A k, l \in 1..Len(out) :
                  k < l => FirstIndex(catalogue, out[k]) < FirstIndex(catalogue, out[l])
            /\ { b \o "-dev", "dev-" \o b, b \o "-logs", b \o ".com" }
                  \subseteq Range(out)
            /\ call.n = 2 => call.again = out

\* _variations was called twice for a name holding '.', '_' and '-', and
\* dropped repeated entries of the catalogue
C16_RepeatedEntriesDropped ==
    /\ call.fn = "_variations" /\ call.n = 2
    /\ call.arg = "a.b_c-d"
    /\ Len(call.out) < Len(VariationList(call.arg))
    /\ "a-b_c-d" \in Range(call.out) /\ "a.b-c-d" \in Range(call.out)

\* s starts with the prefix p
HasPrefix(s, p) == Len(s) >= Len(p) /\ SubSeq(s, 1, Len(p)) = p

\* C17: for every (bucket, region) pair the sequence _endpoints yields is
\* non-empty, has 6 endpoints without a region and 22 with one, has every http
\* endpoint before every https endpoint, and iterating it again yields the same
\* sequence, as does a fresh call.
C17_EndpointsCountOrderRestartable ==
    (call.fn = "_endpoints" /\ call.n >= 1) =>
        LET out == call.out
            half == Len(out) \div 2
        IN  /\ Len(out) > 0
            /\ Len(out) = IF call.arg.region = NoRegion THEN 6 ELSE 22
            /\ \A i \in 1..half : HasPrefix(out[i], "http://")
            /\ \A i \in (half + 1)..Len(out) : HasPrefix(out[i], "https://")
            /\ call.n >= 2 => call.again = out
            /\ call.n >= 3 => call.fresh = out

\* C18: the write, read and delete checks are toggled independently: at the
\* prompt there is an answer under which probes make the write check and not
\* the read check; and in a run with the write check on, a probe makes the GET
\* after a successful PUT only if the read check is on under the answer given.
C18_ReadToggledApartFromWrite ==
    /\ mpc = "params" =>
          \E choice \in Choices :
              ChecksMade(choice).write /\ ~ChecksMade(choice).read
    /\ \A l \in ProbeLocals :
          (l.nget = 1) =>
              \E choice \in Choices :
                  /\ TestParams(choice).test_put = test_put
                  /\ TestParams(choice).test_delete = test_delete
                  /\ ChecksMade(choice).read

\* a call of the aws tool by _cli_probe is in progress
CliInvocation == mpc \in {"cli_ls", "cli_put", "cli_get", "cli_del"}

\* C19: the External-Tool channel is sequential and ordered.  The attempts are
\* begun one at a time, each after the one before has ended; the first is
\* (first candidate, no region); each next one is the next region of the same
\* candidate in REGIONS order or, after the candidate's last region, the next
\* candidate of VARIATIONS with no region; and a call of the tool in progress
\* belongs to the last attempt begun, while no pool worker is running.
C19_CliSequentialOrdered ==
    /\ [](/\ \A j \in DOMAIN attempts :
                /\ attempts[j].bi \in 1..Len(VARIATIONS)
                /\ attempts[j].ri \in 0..Len(REGIONS)
                /\ attempts[j].bucket = VARIATIONS[attempts[j].bi]
          /\ Len(attempts) >= 1 => (attempts[1].bi = 1 /\ attempts[1].ri = 0)
          /\ \A j \in 2..Len(attempts) :
                \/ /\ attempts[j].bi = attempts[j - 1].bi
                   /\ attempts[j].ri = attempts[j - 1].ri + 1
                \/ /\ attempts[j - 1].ri = Len(REGIONS)
                   /\ attempts[j].bi = attempts[j - 1].bi + 1
                   /\ attempts[j].ri = 0
          /\ CliInvocation =>
                /\ Len(attempts) >= 1
                /\ attempts[Len(attempts)].bi = bi
                /\ attempts[Len(attempts)].ri = ri
                /\ ~attempts[Len(attempts)].skipped
                /\ \A w \in Workers : wpc[w] = "idle")
    /\ [][attempts' # attempts =>
              /\ ~CliInvocation /\ mpc = "cli_prog"
              /\ Len(attempts') = Len(attempts) + 1
              /\ SubSeq(attempts', 1, Len(attempts)) = attempts]_vars

\* the sweep has gone through both candidates and reached the last region of
\* the second
C19_SecondCandidateSwept ==
    /\ Len(attempts) = 4
    /\ attempts[3].bi = 2 /\ attempts[3].ri = 0
    /\ attempts[4].bi = 2 /\ attempts[4].ri = 1
    /\ VARIATIONS[1] # VARIATIONS[2]
    /\ mpc = "cli_put"

\* C20: the base-found signal is raised only when the base name is in the
\* found map, and once the base name is there it is raised; once raised it is
\* never cleared; and it stops nothing: from a state with the signal raised an
\* uncancelled run reaches its normal end, and there, with the signal raised,
\* every (candidate, region) position of the sweep was begun, every attempt
\* after the base was recorded was skipped only by the already-found test, and
\* every endpoint of the cross-product was checked and requested exactly once.
C20_BaseFoundOneShot ==
    /\ [](BASE_FOUND => BASE \in DOMAIN FOUND_BUCKETS)
    /\ (BASE \in DOMAIN FOUND_BUCKETS) ~> BASE_FOUND
    /\ [][BASE_FOUND => BASE_FOUND']_vars
    /\ [][(BASE_FOUND /\ mpc = "cli_prog" /\ mpc' = "cli_skip") =>
              AlreadyFound(FOUND_BUCKETS, CliBucket, CliRegion)]_vars
    /\ BASE_FOUND ~> (mpc = "done")
    /\ []((BASE_FOUND /\ mpc \in {"summary", "done"}) =>
              /\ RUN_CLI => \A p \in CliPositions :
                                \E j \in DOMAIN attempts :
                                    attempts[j].bi = p[1] /\ attempts[j].ri = p[2]
              /\ RUN_WEB => \A u \in CrossProduct :
                                u \in CHECKED_SET /\ CopiesIn(u, fetched) = 1)

\* the base was recorded by the first attempt of the sweep, and the attempts
\* that followed were made and recorded it under a second region
C20_ProbedOnAfterBaseFound ==
    /\ mpc = "summary" /\ BASE_FOUND
    /\ Len(attempts) >= 2 /\ ~attempts[2].skipped
    /\ BASE \in DOMAIN FOUND_BUCKETS
    /\ Cardinality(FOUND_BUCKETS[BASE]) = 2

\* C21: a finding made without a region adds nothing to the candidate's region
\* set, so every element of every region set of the found map is a region of
\* the fixed region list; and a candidate recorded only by no-region findings
\* has an empty region set.
C21_RegionSetsHoldRegionsOnly ==
    \A b \in DOMAIN FOUND_BUCKETS :
        /\ FOUND_BUCKETS[b] \subseteq Range(REGIONS_ALL)
        /\ (\A r \in recorded : r[1] = b => r[2] \in {NoRegion, "No Region"})
              => FOUND_BUCKETS[b] = {}

\* a signal arrives and its handler is entered
SignalArrives == \E s \in {SIGINT, SIGTERM} : Interrupt(s)

\* the main thread is in the handler
InCleanup == mpc \in {"cleanup", "cleanup_exit"}

\* C22: the handler sets the stop flag; its shutdown step drops the queued
\* work, after which no worker starts a work item; its steps never take or
\* release LOCK and are enabled whoever holds LOCK and whatever the workers
\* are doing; entering it again changes neither the ledger nor the queue nor
\* the flag; and unless signals keep arriving for ever, a run in which the
\* flag is set exits, with code 130, although nothing makes the workers move.
C22_CleanupNeverWaits ==
    /\ [](InCleanup => STOP_ALL)
    /\ []((STOP_ALL /\ mpc \in {"cleanup_exit", "exit"}) =>
              qhead = Len(all_urls) + 1)
    /\ [][qhead = Len(all_urls) + 1 => wtask' = wtask \/ \A w \in Workers :
              wtask'[w] \in {wtask[w], 0}]_vars
    /\ [](/\ mpc = "cleanup" => ENABLED CleanupShutdown
          /\ mpc = "cleanup_exit" => ENABLED CleanupExit)
    /\ [][(SignalArrives \/ CleanupShutdown \/ CleanupExit) =>
              UNCHANGED << LOCK, ledgerVars, poolVars >>]_vars
    /\ [][(InCleanup /\ SignalArrives) =>
              UNCHANGED << STOP_ALL, ledgerVars, qhead, LOCK, poolVars >>]_vars
    /\ [](exited /\ STOP_ALL => exit_code = 130)
    /\ (<>[][~SignalArrives]_vars) => (STOP_ALL ~> exited)

\* the main thread has made the already-found test of _cli_probe for the
\* attempt under way and has not yet recorded or dropped the attempt
CliBetweenTestAndRecord ==
    mpc \in {"cli_ls", "cli_put", "cli_get", "cli_del", "cli_report", "cli_mark"}

\* C23: every step that changes the checked set or the found map is made
\* with LOCK held; a worker that has read the checked set in the test of
\* _web_check holds LOCK until it has added the URL; and the main thread
\* holds LOCK from the already-found test of _cli_probe until it has
\* recorded the finding.
C23_LedgerGuardedAcrossReadAndWrite ==
    /\ [][(CHECKED_SET' # CHECKED_SET \/ FOUND_BUCKETS' # FOUND_BUCKETS) =>
              LOCK # "free"]_vars
    /\ [](\A w \in Workers : wpc[w] \in {"guard", "add"} => LOCK = WName(w))
    /\ [](CliBetweenTestAndRecord => LOCK = "main")

\* the External-Tool channel is running: the main thread is inside _run_cli
CliRunning ==
    mpc \in {"cli_loop", "cli_region", "cli_prog", "cli_skip", "cli_ls",
             "cli_put", "cli_get", "cli_del", "cli_report", "cli_mark",
             "cli_logacq", "cli_log", "cli_end"}

\* the Direct-Protocol channel has begun: its URL list is built, the main
\* thread is inside _run_web, or a pool worker has a URL in hand
WebStarted ==
    \/ all_urls # << >>
    \/ mpc \in {"web_submitting", "web_loop", "web_prog", "web_join"}
    \/ \E w \in Workers : wpc[w] # "idle"

\* the findings the External-Tool channel has recorded: it alone passes a
\* label to _mark_found
CliRecorded(rec) == { r \in rec : r[2] # NoRegion }

\* C24: in a run of both channels the Direct-Protocol channel begins (builds
\* its URL list, starts a worker) only when the External-Tool channel has made
\* the last attempt of its sweep: from then on the main thread is never inside
\* _run_cli, no attempt is begun, no finding of the External-Tool channel is
\* recorded, and every finding it has recorded is in the found map.
C24_WebStartsAfterCliEnds ==
    /\ []((RUN_CLI /\ WebStarted) =>
              /\ ~CliRunning
              /\ bi > Len(VARIATIONS)
              /\ Len(attempts) = Len(VARIATIONS) * (Len(REGIONS) + 1)
              /\ \A r \in CliRecorded(recorded) :
                    /\ r[1] \in DOMAIN FOUND_BUCKETS
                    /\ r[2] \in FOUND_BUCKETS[r[1]])
    /\ [][WebStarted =>
              /\ attempts' = attempts
              /\ CliRecorded(recorded') = CliRecorded(recorded)]_vars

\* a run of both channels in which the External-Tool channel has recorded a
\* finding and a pool worker has a request of the Direct-Protocol channel in
\* flight
C24_WorkerRunsAfterCliFinding ==
    /\ RUN_CLI /\ RUN_WEB
    /\ CliRecorded(recorded) # {}
    /\ attempts # << >>
    /\ \E w \in Workers : wpc[w] = "fetch"

=============================================================================
